---- MODULE Spec2Model ----
(***************************************************************************)
(* The tab registry of examples/tabs (app.rs): TabManager, Tab and the     *)
(* event dispatch of App::update.                                          *)
(*                                                                         *)
(* tabs is the BTreeMap<u64, Tab>: a function from the live ids to tabs.   *)
(* active_tab_id is the Option<u64>: <<>> for None, <<id>> for Some(id).   *)
(* queue is the mpsc channel of (tab id, PtyEvent) pairs.                  *)
(* panicked records that an unwrap()/expect() has aborted the UI thread.   *)
(* next_sid, removed_ids, lastOp and run are history variables: they are   *)
(* written by the actions and read only by the properties.                 *)
(* exited is the set of sessions that have sent Exit, sent the number of    *)
(* events sent so far.                                                     *)
(***************************************************************************)
EXTENDS Integers, Sequences, FiniteSets, TLC

VARIABLES tabs, active_tab_id, queue, panicked, next_sid, removed_ids, lastOp, run,
          exited, sent

vars == <<tabs, active_tab_id, queue, panicked, next_sid, removed_ids, lastOp, run,
          exited, sent>>

\* Bounds of the model.
MaxTabs == 3
MaxSessions == 4
MaxQueue == 2
MaxTabsWide == 4
MaxEvents == 4

\* The ids offered as arguments: every id a tab can have, the id equal to the
\* largest count, and one beyond it.
ArgIds == 0..(MaxTabs + 1)

\* The strings offered as titles.
Titles == {"X", "Y"}

\* Option<u64>
None == <<>>
Some(id) == <<id>>

\* The argument recorded for operations that take no id.
NoId == 0 - 1

\* BTreeMap::new()
EmptyMap == <<>>

\* Tab::new: the title is format!("tab: {}", id); sid names the backend
\* (the terminal session) that this handle owns.
Tab_new(id, sid) == [title |-> "tab: " \o ToString(id), sid |-> sid]

\* Mutant of Tab_set_title: the new title is dropped.
Tab_set_title_dropped(tab, title) == tab

\* Tab::set_title
Tab_set_title(tab, title) == [tab EXCEPT !.title = title]

\* self.tabs.len()
len(ts) == Cardinality(DOMAIN ts)

\* BTreeMap::insert: a present key has its value replaced.
insert(ts, id, tab) == [k \in (DOMAIN ts) \cup {id} |-> IF k = id THEN tab ELSE ts[k]]

\* BTreeMap::remove
remove_key(ts, id) == [k \in (DOMAIN ts) \ {id} |-> ts[k]]

\* The keys of a BTreeMap in iteration order (ascending).
RECURSIVE SortedSeq(_)
SortedSeq(S) ==
    IF S = {} THEN <<>>
    ELSE LET m == CHOOSE x \in S : \A y \in S : x <= y
         IN <<m>> \o SortedSeq(S \ {m})

\* TabManager::get_tab_ids
get_tab_ids(ts) == SortedSeq(DOMAIN ts)

\* Iterator::skip_while(|t| t.0 <= &id)
RECURSIVE skip_while_le(_, _)
skip_while_le(s, id) ==
    IF s = <<>> THEN <<>>
    ELSE IF Head(s) <= id THEN skip_while_le(Tail(s), id)
    ELSE s

\* Mutants of reselect (plausible slips in the fallback chain).
reselect_no_wrap(ts, id) ==
    LET rest == skip_while_le(get_tab_ids(ts), id)
    IN IF rest # <<>> THEN Some(Head(rest)) ELSE None

reselect_first(ts, id) ==
    LET ks == get_tab_ids(ts)
    IN IF ks # <<>> THEN Some(Head(ks)) ELSE None

\* The new active id computed by remove, from the map after the removal.
reselect(ts, id) ==
    LET ks == get_tab_ids(ts)
        rest == skip_while_le(ks, id)
    IN IF rest # <<>> THEN Some(Head(rest))
       ELSE IF ks # <<>> THEN Some(ks[Len(ks)])
       ELSE None

\* Mutant of add_id: ids taken from the largest key instead of the count.
add_id_after_max(ts) ==
    IF DOMAIN ts = {} THEN 0
    ELSE (CHOOSE x \in DOMAIN ts : \A y \in DOMAIN ts : y <= x) + 1

\* The id that add allocates.
add_id(ts) == len(ts)

\* The early return of set_active.
set_active_rejects(ts, id) == id > len(ts)

\* TabManager::get_title
get_title(ts, id) == IF id \in DOMAIN ts THEN Some(ts[id].title) ELSE None

\* Mutant of get_active: a missing active key falls back to the last tab.
get_active_fallback(ts, act) ==
    IF act # None /\ act[1] \in DOMAIN ts THEN Some(ts[act[1]])
    ELSE IF DOMAIN ts # {} THEN Some(ts[get_tab_ids(ts)[len(ts)]])
    ELSE None

\* TabManager::get_active
get_active(ts, act) ==
    IF act = None THEN None
    ELSE IF act[1] \in DOMAIN ts THEN Some(ts[act[1]])
    ELSE None

\* The TabManager as one value: its two fields, whether an unwrap()/expect()
\* has panicked, and the history of sessions created and ids removed.
Mgr ==
    [tabs |-> tabs, active_tab_id |-> active_tab_id, panicked |-> panicked,
     next_sid |-> next_sid, removed_ids |-> removed_ids]

\* TabManager::new
TabManager_new ==
    [tabs |-> EmptyMap, active_tab_id |-> None, panicked |-> FALSE,
     next_sid |-> 0, removed_ids |-> {}]

\* TabManager::add, with Tab::new. shell_ok: the SHELL variable is defined;
\* spawn_ok: TerminalBackend::new returns Ok. Otherwise expect()/unwrap()
\* panics before the map is touched.
add(m, shell_ok, spawn_ok) ==
    LET id == add_id(m.tabs)
    IN IF shell_ok /\ spawn_ok
       THEN [m EXCEPT !.tabs = insert(m.tabs, id, Tab_new(id, m.next_sid)),
                      !.active_tab_id = Some(id),
                      !.next_sid = @ + 1]
       ELSE [m EXCEPT !.panicked = TRUE]

\* Mutant of remove: the guard for the empty registry is missing.
remove_unguarded(m, id) ==
    IF id \notin DOMAIN m.tabs THEN [m EXCEPT !.panicked = TRUE]
    ELSE LET rest == remove_key(m.tabs, id)
         IN [m EXCEPT !.tabs = rest,
                      !.active_tab_id = reselect(rest, id),
                      !.removed_ids = @ \cup {id}]

\* TabManager::remove. On a non-empty map an absent id makes
\* self.tabs.remove(&id).unwrap() panic.
remove(m, id) ==
    IF len(m.tabs) = 0 THEN m
    ELSE IF id \notin DOMAIN m.tabs THEN [m EXCEPT !.panicked = TRUE]
    ELSE LET rest == remove_key(m.tabs, id)
         IN [m EXCEPT !.tabs = rest,
                      !.active_tab_id = reselect(rest, id),
                      !.removed_ids = @ \cup {id}]

\* TabManager::clear
clear(m) == [m EXCEPT !.tabs = EmptyMap, !.removed_ids = @ \cup DOMAIN m.tabs]

\* Mutant of set_title: an absent id gets a tab with the title (an upsert).
set_title_upsert(m, id, title) ==
    [m EXCEPT !.tabs = insert(m.tabs, id,
                              IF id \in DOMAIN m.tabs
                              THEN Tab_set_title(m.tabs[id], title)
                              ELSE [title |-> title, sid |-> m.next_sid])]

\* TabManager::set_title
set_title(m, id, title) ==
    IF id \in DOMAIN m.tabs
    THEN [m EXCEPT !.tabs[id] = Tab_set_title(@, title)]
    ELSE m

\* TabManager::set_active
set_active(m, id) ==
    IF set_active_rejects(m.tabs, id) THEN m
    ELSE [m EXCEPT !.active_tab_id = Some(id)]

\* The operation just performed, with the state it was performed on.
Op(name, id, title) ==
    [op |-> name, id |-> id, title |-> title,
     pre_tabs |-> tabs, pre_active |-> active_tab_id, pre_removed |-> removed_ids]

\* The consecutive adds made since the registry was last empty.
RunAfterAdd(id) ==
    IF tabs = EmptyMap THEN [ok |-> TRUE, ids |-> <<id>>]
    ELSE IF run.ok THEN [ok |-> TRUE, ids |-> Append(run.ids, id)]
    ELSE run

NoRun == [ok |-> FALSE, ids |-> <<>>]

\* The next state holds the manager m.
Becomes(m) ==
    /\ tabs' = m.tabs
    /\ active_tab_id' = m.active_tab_id
    /\ panicked' = m.panicked
    /\ next_sid' = m.next_sid
    /\ removed_ids' = m.removed_ids

\* App::new
Init ==
    /\ tabs = TabManager_new.tabs
    /\ active_tab_id = TabManager_new.active_tab_id
    /\ panicked = TabManager_new.panicked
    /\ next_sid = TabManager_new.next_sid
    /\ removed_ids = TabManager_new.removed_ids
    /\ queue = <<>>
    /\ lastOp = [op |-> "new", id |-> NoId, title |-> "",
                 pre_tabs |-> EmptyMap, pre_active |-> None, pre_removed |-> {}]
    /\ run = [ok |-> TRUE, ids |-> <<>>]
    /\ exited = {}
    /\ sent = 0

\* The model creates at most MaxTabs tabs at a time and MaxSessions sessions.
CanAddUpTo(m, n) == len(m.tabs) < n /\ m.next_sid < MaxSessions
CanAdd(m) == CanAddUpTo(m, MaxTabs)

\* The calls a client of TabManager can make.
AddUpTo(n) ==
    /\ ~panicked
    /\ CanAddUpTo(Mgr, n)
    /\ \E shell_ok \in BOOLEAN, spawn_ok \in BOOLEAN :
          /\ Becomes(add(Mgr, shell_ok, spawn_ok))
          /\ lastOp' = Op(IF shell_ok /\ spawn_ok THEN "add" ELSE "add_failed",
                          add_id(tabs), "")
          /\ run' = IF shell_ok /\ spawn_ok THEN RunAfterAdd(add_id(tabs)) ELSE NoRun
    /\ UNCHANGED <<queue, exited, sent>>

CallAdd == AddUpTo(MaxTabs)

CallRemove ==
    /\ ~panicked
    /\ \E id \in ArgIds :
          /\ Becomes(remove(Mgr, id))
          /\ lastOp' = Op("remove", id, "")
    /\ run' = NoRun
    /\ UNCHANGED <<queue, exited, sent>>

CallClear ==
    /\ ~panicked
    /\ Becomes(clear(Mgr))
    /\ lastOp' = Op("clear", NoId, "")
    /\ run' = NoRun
    /\ UNCHANGED <<queue, exited, sent>>

CallSetTitle ==
    /\ ~panicked
    /\ \E id \in ArgIds, title \in Titles :
          /\ Becomes(set_title(Mgr, id, title))
          /\ lastOp' = Op("set_title", id, title)
    /\ run' = NoRun
    /\ UNCHANGED <<queue, exited, sent>>

CallSetActive ==
    /\ ~panicked
    /\ \E id \in ArgIds :
          /\ Becomes(set_active(Mgr, id))
          /\ lastOp' = Op("set_active", id, "")
    /\ run' = NoRun
    /\ UNCHANGED <<queue, exited, sent>>

\* Every sequence of TabManager operations.
NextMgr == CallAdd \/ CallRemove \/ CallClear \/ CallSetTitle \/ CallSetActive
SpecMgr == Init /\ [][NextMgr]_vars

\* Sequences of add and remove only.
NextAddRemove == CallAdd \/ CallRemove
SpecAddRemove == Init /\ [][NextAddRemove]_vars

\* Sequences of add and remove only, up to MaxTabsWide tabs at a time: with
\* fewer than four tabs every key beyond the count is the active one.
CallAddWide == AddUpTo(MaxTabsWide)
NextAddRemoveWide == CallAddWide \/ CallRemove
SpecAddRemoveWide == Init /\ [][NextAddRemoveWide]_vars

\* The kinds of PtyEvent the dispatch distinguishes: Exit, Title(_) and the rest.
EventKinds == {"Exit", "Title", "Other"}

\* A (tab id, PtyEvent) pair in the channel; sid names the session that sent it.
Event(id, kind, title, sid) == [id |-> id, kind |-> kind, title |-> title, sid |-> sid]

\* The match of App::update on a received event.
dispatch(m, ev) ==
    IF ev.kind = "Exit" THEN remove(m, ev.id)
    ELSE IF ev.kind = "Title" THEN set_title(m, ev.id, ev.title)
    ELSE m

\* What the user does in one frame: nothing, a click on the button of a listed
\* tab, or a click on [+] (ok: the session can be created).
NoClick == [kind |-> "none", id |-> NoId, ok |-> TRUE]

ClicksAmong(m, oks) ==
    {NoClick}
    \cup {[kind |-> "tab", id |-> i, ok |-> TRUE] : i \in DOMAIN m.tabs}
    \cup (IF CanAdd(m) THEN {[kind |-> "plus", id |-> NoId, ok |-> b] : b \in oks}
          ELSE {})

Clicks(m) == ClicksAmong(m, BOOLEAN)

\* The top panel of App::update: the tab buttons and the [+] button.
top_panel(m, click) ==
    IF click.kind = "tab" THEN set_active(m, click.id)
    ELSE IF click.kind = "plus" THEN add(m, click.ok, click.ok)
    ELSE m

\* Mutant of try_recv: the newest pending event is received, not the oldest.
try_recv_newest(q) ==
    IF q = <<>> THEN [ok |-> FALSE, rest |-> q]
    ELSE [ok |-> TRUE, ev |-> q[Len(q)], rest |-> SubSeq(q, 1, Len(q) - 1)]

\* self.command_receiver.try_recv(): the oldest pending event, if there is one.
try_recv(q) ==
    IF q = <<>> THEN [ok |-> FALSE, rest |-> q]
    ELSE [ok |-> TRUE, ev |-> Head(q), rest |-> Tail(q)]

\* The steps of the application record their name only.
AppOp(name) ==
    [op |-> name, id |-> NoId, title |-> "",
     pre_tabs |-> EmptyMap, pre_active |-> None, pre_removed |-> {}]

\* The application runs: the UI thread has not panicked and on_exit has not run.
Running == ~panicked /\ lastOp.op # "on_exit"

\* The sessions that the handles in the registry own.
LiveSids == {tabs[k].sid : k \in DOMAIN tabs}

\* The backend of a live tab sends an event, tagged with the id it was created
\* with. Exit is the last event of a session.
Emit ==
    /\ Running
    /\ Len(queue) < MaxQueue
    /\ sent < MaxEvents
    /\ \E id \in DOMAIN tabs, kind \in EventKinds, title \in Titles :
          /\ tabs[id].sid \notin exited
          /\ kind # "Title" => title = "X"
          /\ queue' = Append(queue, Event(id, kind, IF kind = "Title" THEN title ELSE "",
                                          tabs[id].sid))
          /\ exited' = IF kind = "Exit" THEN exited \cup {tabs[id].sid} ELSE exited
    /\ sent' = sent + 1
    /\ UNCHANGED <<tabs, active_tab_id, panicked, next_sid, removed_ids, lastOp, run>>

\* App::update: one frame. oks: whether a session can be created in this run
\* (TRUE), cannot (FALSE), or either.
Frame(oks) ==
    /\ Running
    /\ LET got == try_recv(queue)
           m1 == IF got.ok THEN dispatch(Mgr, got.ev) ELSE Mgr
       IN /\ \E click \in (IF m1.panicked THEN {NoClick} ELSE ClicksAmong(m1, oks)) :
                Becomes(top_panel(m1, click))
          /\ queue' = got.rest
    /\ lastOp' = AppOp("update")
    /\ run' = NoRun
    /\ UNCHANGED <<exited, sent>>

Update == Frame(BOOLEAN)

\* App::on_exit
OnExit ==
    /\ Running
    /\ Becomes(clear(Mgr))
    /\ lastOp' = AppOp("on_exit")
    /\ run' = NoRun
    /\ UNCHANGED <<queue, exited, sent>>

\* The application: sessions sending events, frames, shutdown.
NextApp == Emit \/ Update \/ OnExit
SpecApp == Init /\ [][NextApp]_vars

\* The application where every session can be created (SHELL is set, the
\* backend spawns) and frames keep coming: eframe calls update again as long as
\* the UI thread lives.
UpdateShellOk == Frame({TRUE})
NextAppShellOk == Emit \/ UpdateShellOk \/ OnExit
SpecAppFair == Init /\ [][NextAppShellOk]_vars /\ WF_vars(UpdateShellOk)

(***************************************************************************)
(* The properties.                                                         *)
(***************************************************************************)

\* The ids of a map, and the smallest and largest of a non-empty set of ids.
Keys(ts) == DOMAIN ts
Least(S) == CHOOSE x \in S : \A y \in S : x <= y
Greatest(S) == CHOOSE x \in S : \A y \in S : y <= x

\* C1: in every state reachable by add, remove, set_title, set_active and
\* clear, active_tab_id is None or a key currently in tabs.
C1_ActiveIsLiveKey ==
    active_tab_id = None \/ active_tab_id[1] \in Keys(tabs)

\* C2: with add and remove only, from an empty registry, after each call
\* active_tab_id is None exactly when tabs is empty, and otherwise a key of tabs.
C2_ActiveNoneIffEmpty ==
    /\ (active_tab_id = None) <=> (Keys(tabs) = {})
    /\ active_tab_id # None => active_tab_id[1] \in Keys(tabs)

\* C2, its case: a remove left tabs behind, none of them the tab that was
\* active, and the id removed was the largest (the wrap to the last tab).
C2_Witness ==
    /\ lastOp.op = "remove"
    /\ lastOp.id \in Keys(lastOp.pre_tabs)
    /\ Keys(tabs) # {}
    /\ \A k \in Keys(tabs) : k < lastOp.id
    /\ lastOp.pre_active = Some(lastOp.id)

\* The re-selection policy of remove, stated on the set of remaining ids.
C3_Policy(remaining, id) ==
    LET higher == {k \in remaining : k > id}
    IN IF higher # {} THEN Some(Least(higher))
       ELSE IF remaining # {} THEN Some(Greatest(remaining))
       ELSE None

\* C3: after remove(id) of a present id, the active id is the smallest remaining
\* key greater than id, else the largest remaining key, else None; whether or
\* not id was the active tab.
C3_RemoveReselects ==
    (lastOp.op = "remove" /\ lastOp.id \in Keys(lastOp.pre_tabs)) =>
        /\ Keys(tabs) = Keys(lastOp.pre_tabs) \ {lastOp.id}
        /\ active_tab_id = C3_Policy(Keys(tabs), lastOp.id)

\* C3, its case: tabs {0,1,2} with 0 active; remove(2), which was not active,
\* moves the active id to 1.
C3_Witness ==
    /\ lastOp.op = "remove"
    /\ Keys(lastOp.pre_tabs) = {0, 1, 2}
    /\ lastOp.pre_active = Some(0)
    /\ lastOp.id = 2
    /\ active_tab_id = Some(1)

\* C4: the id that add allocates is not a key of tabs, so add replaces no live
\* handle and increases the number of tabs by exactly one.
C4_AddAllocatesFreeId ==
    lastOp.op = "add" =>
        /\ lastOp.id \notin Keys(lastOp.pre_tabs)
        /\ Cardinality(Keys(tabs)) = Cardinality(Keys(lastOp.pre_tabs)) + 1

\* C5: an id that remove or clear has removed is not assigned again by a later add.
C5_RemovedIdNotReassigned ==
    lastOp.op = "add" => lastOp.id \notin lastOp.pre_removed

\* C6: remove(id) of an id that is not in the registry is a no-op in every
\* registry state: no panic, tabs unchanged.
C6_RemoveAbsentIsNoOp ==
    (lastOp.op = "remove" /\ lastOp.id \notin Keys(lastOp.pre_tabs)) =>
        /\ ~panicked
        /\ tabs = lastOp.pre_tabs

\* C7: when the session cannot be created, add fails without a panic and
\* leaves tabs and active_tab_id unchanged.
C7_FailedAddIsReported ==
    lastOp.op = "add_failed" =>
        /\ ~panicked
        /\ tabs = lastOp.pre_tabs
        /\ active_tab_id = lastOp.pre_active

\* C8: after clear, tabs is empty and active_tab_id is None.
C8_ClearResets ==
    lastOp.op = "clear" => (Keys(tabs) = {} /\ active_tab_id = None)

\* C9: set_active(id) with id at or beyond the number of tabs leaves the
\* registry, active_tab_id included, unchanged.
C9_SetActiveWithinCount ==
    (lastOp.op = "set_active" /\ lastOp.id >= Cardinality(Keys(lastOp.pre_tabs))) =>
        /\ active_tab_id = lastOp.pre_active
        /\ tabs = lastOp.pre_tabs

\* C10: add allocates the number of entries of tabs as the new id, the id is then
\* a key of tabs and the active id; adds on an empty registry yield 0, 1, 2, ...
\* in that order, with the active id at the last one.
C10_AddAllocatesCount ==
    /\ lastOp.op = "add" =>
          /\ lastOp.id = Cardinality(Keys(lastOp.pre_tabs))
          /\ lastOp.id \in Keys(tabs)
          /\ active_tab_id = Some(lastOp.id)
    /\ (run.ok /\ run.ids # <<>>) =>
          /\ \A i \in 1..Len(run.ids) : run.ids[i] = i - 1
          /\ active_tab_id = Some(Len(run.ids) - 1)

\* C10, its case: three adds on an empty registry.
C10_Witness ==
    /\ run.ok
    /\ run.ids = <<0, 1, 2>>
    /\ Keys(tabs) = {0, 1, 2}
    /\ active_tab_id = Some(2)

\* C11: remove(id) on an empty registry, for any id, does not panic and leaves
\* tabs empty and active_tab_id unchanged.
C11_RemoveOnEmptyIsNoOp ==
    (lastOp.op = "remove" /\ Keys(lastOp.pre_tabs) = {}) =>
        /\ ~panicked
        /\ Keys(tabs) = {}
        /\ active_tab_id = lastOp.pre_active
        /\ removed_ids = lastOp.pre_removed

\* C11, its case: remove on a registry that clear has emptied, with the active
\* id that clear left behind.
C11_Witness ==
    /\ lastOp.op = "remove"
    /\ Keys(lastOp.pre_tabs) = {}
    /\ lastOp.pre_active # None
    /\ lastOp.id # lastOp.pre_active[1]
    /\ ~panicked

\* C12: set_title(id, title) with an absent id signals no error and leaves the
\* registry unchanged; with a present id it changes that tab's title only.
C12_SetTitleFrame ==
    lastOp.op = "set_title" =>
        /\ ~panicked
        /\ active_tab_id = lastOp.pre_active
        /\ Keys(tabs) = Keys(lastOp.pre_tabs)
        /\ \A k \in Keys(tabs) :
              /\ tabs[k].sid = lastOp.pre_tabs[k].sid
              /\ tabs[k].title = IF k = lastOp.id THEN lastOp.title
                                 ELSE lastOp.pre_tabs[k].title

\* C12, its case: a set_title for an absent id on a registry that has tabs.
C12_Witness ==
    /\ lastOp.op = "set_title"
    /\ lastOp.id \notin Keys(lastOp.pre_tabs)
    /\ Cardinality(Keys(tabs)) >= 2
    /\ \E k \in Keys(tabs) : tabs[k].title \in Titles

\* C13: after set_title(id, X) of a present id, get_title(id) returns X; and
\* get_title returns None for every id that is not in tabs.
C13_TitleRoundTrip ==
    /\ (lastOp.op = "set_title" /\ lastOp.id \in Keys(lastOp.pre_tabs)) =>
          get_title(tabs, lastOp.id) = Some(lastOp.title)
    /\ \A id \in ArgIds \ Keys(tabs) : get_title(tabs, id) = None

\* C13, its case: a title set over a different title that was set before.
C13_Witness ==
    /\ lastOp.op = "set_title"
    /\ lastOp.id \in Keys(lastOp.pre_tabs)
    /\ lastOp.pre_tabs[lastOp.id].title \in Titles \ {lastOp.title}
    /\ get_title(tabs, lastOp.id) = Some(lastOp.title)

\* C14: when tabs is empty get_active returns None; a handle that get_active
\* returns is the entry of tabs keyed by active_tab_id.
C14_GetActive ==
    /\ Keys(tabs) = {} => get_active(tabs, active_tab_id) = None
    /\ get_active(tabs, active_tab_id) # None =>
          /\ active_tab_id # None
          /\ active_tab_id[1] \in Keys(tabs)
          /\ get_active(tabs, active_tab_id)[1] = tabs[active_tab_id[1]]

\* C14, its case: after clear the registry is empty and the active id is still
\* set; get_active returns None.
C14_Witness ==
    /\ lastOp.op = "clear"
    /\ Keys(lastOp.pre_tabs) # {}
    /\ Keys(tabs) = {}
    /\ active_tab_id # None
    /\ get_active(tabs, active_tab_id) = None

\* C17: in every state reachable by add and remove, set_active(id) of an id
\* that is a key of tabs makes it the active id.
C17_SelectExistingWorks ==
    \A id \in Keys(tabs) : set_active(Mgr, id).active_tab_id = Some(id)

\* A step of App::update (Emit counts the event it sends, on_exit names itself).
FrameStep == lastOp'.op = "update" /\ sent' = sent

\* The step leaves the registry as the buttons of the frame alone make it.
ButtonsOnly ==
    \E click \in Clicks(Mgr) :
        /\ tabs' = top_panel(Mgr, click).tabs
        /\ active_tab_id' = top_panel(Mgr, click).active_tab_id
        /\ panicked' = top_panel(Mgr, click).panicked

\* C15: a tick removes at most one event from the queue, the oldest one; a tick
\* with an empty queue dispatches nothing and its event handling leaves the
\* registry unchanged; so does an event that is neither Exit nor Title.
C15_OneOldestPerTick ==
    [][/\ Len(queue') >= Len(queue) - 1
       /\ Len(queue') < Len(queue) => (FrameStep /\ queue' = Tail(queue))
       /\ FrameStep =>
             IF queue = <<>>
             THEN queue' = <<>> /\ ButtonsOnly
             ELSE /\ queue' = Tail(queue)
                  /\ Head(queue).kind = "Other" => ButtonsOnly]_vars

\* C15, its case: two events have been dispatched and another is pending.
C15_Witness ==
    /\ sent - Len(queue) >= 2
    /\ queue # <<>>
    /\ lastOp.op = "update"

\* C16: a tab whose session has not sent Exit stays in the registry until clear:
\* neither the dispatch of an event nor add removes or replaces its handle.
C16_UnexitedTabStays ==
    lastOp.op # "on_exit" =>
        \A s \in 0..(next_sid - 1) : s \notin exited => s \in LiveSids

\* C18: a Title event changes the title of the tab of the session that sent it
\* only; a Title event of a removed tab never retitles a tab created later.
C18_TitleReachesOwnTab ==
    [][\A k \in Keys(tabs) \cap Keys(tabs') :
          (tabs'[k].sid = tabs[k].sid /\ tabs'[k].title # tabs[k].title) =>
              /\ queue # <<>>
              /\ Head(queue).kind = "Title"
              /\ Head(queue).sid = tabs[k].sid]_vars

\* C19: with at most one Exit per session, no tick finds at the head of the
\* queue an Exit whose id is absent from a non-empty registry (the case in
\* which the unwrap of remove panics).
C19_NoAbsentExit ==
    (Running /\ queue # <<>> /\ Head(queue).kind = "Exit" /\ Keys(tabs) # {}) =>
        Head(queue).id \in Keys(tabs)

\* C20: with frames that keep coming and finitely many events, the queue comes
\* to be empty again and again (every event sent is dispatched, unless the
\* application is shut down), and so does the set of sessions that sent Exit
\* and whose handle is still in the registry.
C20_EventsDrain ==
    /\ []<>(queue = <<>> \/ lastOp.op = "on_exit")
    /\ []<>(exited \cap LiveSids = {})

====
